---- MODULE Spec2Model ----
(***************************************************************************)
(* A model of the WXF codec of src/wxf_parser.h: the Encoder pushes, the   *)
(* token pass Parser::parse() with Parser::read_varint(), and the tree     *)
(* builder MakeExprTree().                                                 *)
(*                                                                         *)
(* Numbers.  size_t / uint64_t values are naturals below 2^WordBits and    *)
(* every size_t operation of the source is taken modulo 2^WordBits: the    *)
(* source's width is 64, the model's width is the bound WordBits.  Bytes   *)
(* are 0..255.  An int64_t handed to push_integer is its 8 two's           *)
(* complement bytes, least significant first, so that the full 64-bit      *)
(* range is exact.  Buffer indices are 0-based as in the source; the       *)
(* sequences holding them are 1-based.                                     *)
(***************************************************************************)
EXTENDS Integers, Sequences, FiniteSets, TLC

(***************************************************************************)
(* Bounds of the model                                                     *)
(***************************************************************************)
\* width in bits of size_t / uint64_t in the model
WordBits == 8
\* longest tag stream appended to a header sample in the byte-level Init
MaxBody == 4
\* parse() stops being stepped once this many tokens are in the list
MaxTokens == 6
\* largest element count an allocation (vector / ExprNode[]) can satisfy
AllocLimit == 3

Modulus == 2 ^ WordBits

(***************************************************************************)
(* enum class WXF_HEAD                                                     *)
(***************************************************************************)
func == 102
association == 65
delay_rule == 58
rule == 45
symbol == 115
string == 83
binary_string == 66
bigint == 73
bigreal == 82
i8 == 67
i16 == 106
i32 == 105
i64 == 76
f64 == 114
array == 193
narray == 194

NumberHeads == {i8, i16, i32, i64, f64}
StringHeads == {symbol, bigint, bigreal, string, binary_string}
AllHeads == {func, association, delay_rule, rule} \cup StringHeads
              \cup NumberHeads \cup {array, narray}

size_of_head_num_type(head) ==
  CASE head = i8 -> 1
    [] head = i16 -> 2
    [] head = i32 -> 4
    [] head = i64 -> 8
    [] head = f64 -> 8
    [] OTHER -> 0

(***************************************************************************)
(* Bit operations on naturals                                              *)
(***************************************************************************)
RECURSIVE BitAnd(_, _)
BitAnd(a, b) ==
  IF a = 0 \/ b = 0 THEN 0
  ELSE (a % 2) * (b % 2) + 2 * BitAnd(a \div 2, b \div 2)

RECURSIVE BitOr(_, _)
BitOr(a, b) ==
  IF a = 0 THEN b
  ELSE IF b = 0 THEN a
  ELSE (IF a % 2 = 1 \/ b % 2 = 1 THEN 1 ELSE 0) + 2 * BitOr(a \div 2, b \div 2)

\* x << k on a WordBits-wide unsigned value (x < 256)
Shl(x, k) == IF k >= WordBits THEN 0 ELSE (x * (2 ^ k)) % Modulus

\* x >> k
Shr(x, k) == IF k >= WordBits THEN 0 ELSE x \div (2 ^ k)

\* constexpr size_t size_of_arr_num_type(const int num_type)
size_of_arr_num_type(num_type) == 2 ^ BitAnd(num_type, 7)

(***************************************************************************)
(* Memory reads.  A read of buffer[i] with i >= size is outside the        *)
(* caller's buffer: the byte it yields is whatever lies there (junk).      *)
(***************************************************************************)
JunkBytes == {0, 255}

ByteAt(b, i, junk) == IF i < Len(b) THEN b[i + 1] ELSE junk

(***************************************************************************)
(* Parser::read_varint.  The ten unrolled lines are the ten values of i;   *)
(* line i reads *ptr++, ors in (b & 0x7F) << 7i, and (all but the last)    *)
(* goes to done when the high bit is clear or ptr has reached end.         *)
(* Result: the value, the new pos, and the set of indices read.            *)
(***************************************************************************)
VarintLines == 10

\* mutant: the lines do not test ptr >= end
RECURSIVE read_varint_line_no_end(_, _, _, _, _, _, _)
read_varint_line_no_end(b, sz, ptr, i, result, reads, junk) ==
  LET byte == ByteAt(b, ptr, junk)
      res  == BitOr(result, Shl(BitAnd(byte, 127), 7 * i))
      rds  == reads \cup {ptr}
  IN  IF i = VarintLines - 1 \/ BitAnd(byte, 128) = 0
      THEN [result |-> res, pos |-> ptr + 1, reads |-> rds]
      ELSE read_varint_line_no_end(b, sz, ptr + 1, i + 1, res, rds, junk)

RECURSIVE read_varint_line(_, _, _, _, _, _, _)
read_varint_line(b, sz, ptr, i, result, reads, junk) ==
  LET byte == ByteAt(b, ptr, junk)
      res  == BitOr(result, Shl(BitAnd(byte, 127), 7 * i))
      rds  == reads \cup {ptr}
  IN  IF i = VarintLines - 1 \/ BitAnd(byte, 128) = 0 \/ ptr + 1 >= sz
      THEN [result |-> res, pos |-> ptr + 1, reads |-> rds]
      ELSE read_varint_line(b, sz, ptr + 1, i + 1, res, rds, junk)

read_varint(b, sz, p, junk) ==
  IF p >= sz THEN [result |-> 0, pos |-> p, reads |-> {}]
  ELSE read_varint_line(b, sz, p, 0, 0, {}, junk)

(***************************************************************************)
(* struct Token.  dimensions is <<>> for the length alternative of the     *)
(* union, and <<num_type, all_len, dim_1, ..., dim_rank>> for arrays       *)
(* (whose length alternative is then not meaningful and kept 0).           *)
(***************************************************************************)
Token(t, len, d) ==
  [type |-> t, rank |-> 0, length |-> len, dimensions |-> <<>>, data |-> d]

ArrayToken(t, dims, num_type, len, d) ==
  [type |-> t, rank |-> Len(dims), length |-> 0,
   dimensions |-> <<num_type, len>> \o dims, data |-> d]

\* the n bytes a token's pointer arithmetic reaches from buffer index from
BytesFrom(b, from, n, junk) == [k \in 1..n |-> ByteAt(b, from + k - 1, junk)]

\* sign extension of a little-endian integer to the 8 bytes of an int64_t
widen(s) == s \o [k \in 1..(8 - Len(s)) |-> IF s[Len(s)] >= 128 THEN 255 ELSE 0]

\* Token::get_integer
get_integer(t, b, junk) ==
  IF t.type = i8 THEN widen(BytesFrom(b, t.data, 1, junk))
  ELSE IF t.type = i16 THEN widen(BytesFrom(b, t.data, 2, junk))
  ELSE IF t.type = i32 THEN widen(BytesFrom(b, t.data, 4, junk))
  ELSE IF t.type = i64 THEN BytesFrom(b, t.data, 8, junk)
  ELSE [k \in 1..8 |-> 0]

\* Token::get_string_view
get_string_view(t, b, junk) ==
  IF t.type \in {symbol, bigint, bigreal, string, binary_string}
  THEN BytesFrom(b, t.data, t.length, junk)
  ELSE <<>>

\* Token::get_arr_span<T>, as the bytes of its dimensions[1] elements
get_arr_span(t, b, width, junk) ==
  IF t.type # array /\ t.type # narray THEN <<>>
  ELSE BytesFrom(b, t.data, t.dimensions[2] * width, junk)

\* Token::dim, for i < rank of an array token
dim(t, i) == IF t.rank > 0 THEN t.dimensions[i + 3] ELSE t.length

(***************************************************************************)
(* The dimension loop of Parser::parse (array / narray case).              *)
(***************************************************************************)
RECURSIVE read_dims(_, _, _, _, _, _, _, _)
read_dims(b, sz, p, i, r, dims, all_len, junk) ==
  IF i >= r THEN [dims |-> dims, all_len |-> all_len, pos |-> p, reads |-> {}]
  ELSE LET v    == read_varint(b, sz, p, junk)
           rest == read_dims(b, sz, v.pos, i + 1, r, Append(dims, v.result),
                             (all_len * v.result) % Modulus, junk)
       IN  [rest EXCEPT !.reads = @ \cup v.reads]


(***************************************************************************)
(* int64_t values: 8 two's complement bytes, least significant first.      *)
(***************************************************************************)
Rep(x, n) == [k \in 1..n |-> x]

IsNeg(x) == x[8] >= 128

\* a < b as unsigned 64-bit values, decided from the most significant byte down
RECURSIVE ULessFrom(_, _, _)
ULessFrom(a, b, k) ==
  IF k = 0 THEN FALSE
  ELSE IF a[k] # b[k] THEN a[k] < b[k]
  ELSE ULessFrom(a, b, k - 1)

ULeq(a, b) == a = b \/ ULessFrom(a, b, 8)

\* a <= b as int64_t
SLeq(a, b) == IF IsNeg(a) # IsNeg(b) THEN IsNeg(a) ELSE ULeq(a, b)

INT8_MIN == <<128>> \o Rep(255, 7)
INT8_MAX == <<127>> \o Rep(0, 7)
INT16_MIN == <<0, 128>> \o Rep(255, 6)
INT16_MAX == <<255, 127>> \o Rep(0, 6)
INT32_MIN == <<0, 0, 0, 128>> \o Rep(255, 4)
INT32_MAX == <<255, 255, 255, 127>> \o Rep(0, 4)
INT64_MAX == Rep(255, 7) \o <<127>>
UINT8_MAX == <<255>> \o Rep(0, 7)
UINT16_MAX == Rep(255, 2) \o Rep(0, 6)
UINT32_MAX == Rep(255, 4) \o Rep(0, 4)
UINT64_MAX == Rep(255, 8)

\* mutant: the upper limits are compared with < instead of <=
minimal_signed_bits_strict(x) ==
  IF SLeq(INT8_MIN, x) /\ SLeq(x, INT8_MAX) /\ x # INT8_MAX THEN 0
  ELSE IF SLeq(INT16_MIN, x) /\ SLeq(x, INT16_MAX) /\ x # INT16_MAX THEN 1
  ELSE IF SLeq(INT32_MIN, x) /\ SLeq(x, INT32_MAX) /\ x # INT32_MAX THEN 2
  ELSE 3

minimal_signed_bits(x) ==
  IF SLeq(INT8_MIN, x) /\ SLeq(x, INT8_MAX) THEN 0
  ELSE IF SLeq(INT16_MIN, x) /\ SLeq(x, INT16_MAX) THEN 1
  ELSE IF SLeq(INT32_MIN, x) /\ SLeq(x, INT32_MAX) THEN 2
  ELSE 3

minimal_unsigned_bits(x) ==
  IF ULeq(x, UINT8_MAX) THEN 0
  ELSE IF ULeq(x, UINT16_MAX) THEN 1
  ELSE IF ULeq(x, UINT32_MAX) THEN 2
  ELSE 3

(***************************************************************************)
(* serialize_varint and serialize_binary: the bytes they append.           *)
(***************************************************************************)
RECURSIVE serialize_varint(_)
serialize_varint(val) ==
  LET low  == BitAnd(val, 127)
      rest == Shr(val, 7)
  IN  IF rest # 0 THEN <<BitOr(low, 128)>> \o serialize_varint(rest)
      ELSE <<low>>

\* serialize_binary of (intN_t)val, N = 8 * nbytes: memcpy of the low bytes
serialize_binary(val, nbytes) == SubSeq(val, 1, nbytes)

(***************************************************************************)
(* serialize_varint and Parser::read_varint at the source's width: a       *)
(* uint64_t is its 64 bits, least significant first.                       *)
(***************************************************************************)
U64Bits == 64

Zero64 == [k \in 1..U64Bits |-> 0]

\* val & 0x7F, as a number
Low7(val) ==
  val[1] + 2 * val[2] + 4 * val[3] + 8 * val[4] + 16 * val[5] + 32 * val[6] + 64 * val[7]

\* val >> 7
Shr7(val) == [k \in 1..U64Bits |-> IF k + 7 <= U64Bits THEN val[k + 7] ELSE 0]

\* bit j (0 the lowest) of the number x
BitOf(x, j) == (x \div (2 ^ j)) % 2

\* result | (uint64_t(x) << sh) for x below 128; bits shifted past 63 are lost
OrShl(result, x, sh) ==
  [k \in 1..U64Bits |->
     IF k - 1 >= sh /\ k - 1 < sh + 7 /\ BitOf(x, k - 1 - sh) = 1 THEN 1 ELSE result[k]]

RECURSIVE serialize_varint_u64(_)
serialize_varint_u64(val) ==
  LET low  == Low7(val)
      rest == Shr7(val)
  IN  IF rest # Zero64 THEN <<BitOr(low, 128)>> \o serialize_varint_u64(rest)
      ELSE <<low>>

\* mutant: the tenth line (<< 63) is missing
RECURSIVE read_varint_u64_line_nine(_, _, _, _, _, _, _)
read_varint_u64_line_nine(b, sz, ptr, i, result, reads, junk) ==
  LET byte == ByteAt(b, ptr, junk)
      res  == OrShl(result, BitAnd(byte, 127), 7 * i)
      rds  == reads \cup {ptr}
  IN  IF i = VarintLines - 2 \/ BitAnd(byte, 128) = 0 \/ ptr + 1 >= sz
      THEN [result |-> res, pos |-> ptr + 1, reads |-> rds]
      ELSE read_varint_u64_line_nine(b, sz, ptr + 1, i + 1, res, rds, junk)

RECURSIVE read_varint_u64_line(_, _, _, _, _, _, _)
read_varint_u64_line(b, sz, ptr, i, result, reads, junk) ==
  LET byte == ByteAt(b, ptr, junk)
      res  == OrShl(result, BitAnd(byte, 127), 7 * i)
      rds  == reads \cup {ptr}
  IN  IF i = VarintLines - 1 \/ BitAnd(byte, 128) = 0 \/ ptr + 1 >= sz
      THEN [result |-> res, pos |-> ptr + 1, reads |-> rds]
      ELSE read_varint_u64_line(b, sz, ptr + 1, i + 1, res, rds, junk)

read_varint_u64(b, sz, p, junk) ==
  IF p >= sz THEN [result |-> Zero64, pos |-> p, reads |-> {}]
  ELSE read_varint_u64_line(b, sz, p, 0, Zero64, {}, junk)

(***************************************************************************)
(* struct Encoder: each push as the buffer it leaves.                      *)
(***************************************************************************)
push_ustr(buf, str) == buf \o str

push_integer(buf, val) ==
  LET num_type == minimal_signed_bits(val)
  IN  CASE num_type = 0 -> buf \o <<i8>> \o serialize_binary(val, 1)
        [] num_type = 1 -> buf \o <<i16>> \o serialize_binary(val, 2)
        [] num_type = 2 -> buf \o <<i32>> \o serialize_binary(val, 4)
        [] num_type = 3 -> buf \o <<i64>> \o serialize_binary(val, 8)
        [] OTHER -> buf

\* val is the 8 bytes of the double
push_real(buf, val) == buf \o <<f64>> \o serialize_binary(val, 8)

push_string(buf, str, type) ==
  push_ustr(buf \o <<type>> \o serialize_varint(Len(str) % Modulus), str)

\* mutant: the head symbol is written before the tag and the child count
push_function_head_first(buf, head, num_vars) ==
  push_string(buf, head, symbol) \o <<func>> \o serialize_varint(num_vars)

push_function(buf, head, num_vars) ==
  push_string(buf \o <<func>> \o serialize_varint(num_vars), head, symbol)

push_association(buf, num_rules) ==
  buf \o <<association>> \o serialize_varint(num_rules)

push_rule(buf) == buf \o <<rule>>

push_delay_rule(buf) == buf \o <<delay_rule>>

\* the loop of push_array_info: the bytes of the dimensions and their product
RECURSIVE push_dims(_, _, _, _)
push_dims(buf, dimension_array, k, all_len) ==
  IF k > Len(dimension_array) THEN [buffer |-> buf, all_len |-> all_len]
  ELSE push_dims(buf \o serialize_varint(dimension_array[k]), dimension_array,
                 k + 1, (all_len * dimension_array[k]) % Modulus)

push_array_info(buf, dimension_array, type, num_type) ==
  push_dims(buf \o <<type, num_type>> \o serialize_varint(Len(dimension_array)),
            dimension_array, 1, 1)

RECURSIVE Flatten(_)
Flatten(elems) == IF elems = <<>> THEN <<>> ELSE Head(elems) \o Flatten(Tail(elems))

\* mutant: the rollback empties the buffer
push_array_resize_zero(buf, dimension_array, data, type, num_type) ==
  LET info == push_array_info(buf, dimension_array, type, num_type)
  IN  IF info.all_len # Len(data) % Modulus
      THEN <<>>
      ELSE push_ustr(info.buffer, Flatten(data))

\* data is the span: a sequence of elements, each the bytes of one T
push_array(buf, dimension_array, data, type, num_type) ==
  LET old_size == Len(buf)
      info     == push_array_info(buf, dimension_array, type, num_type)
  IN  IF info.all_len # Len(data) % Modulus
      THEN SubSeq(info.buffer, 1, old_size)
      ELSE push_ustr(info.buffer, Flatten(data))

(***************************************************************************)
(* The element types T of push_packed_array / push_numeric_array.          *)
(***************************************************************************)
SignedTypes == {"int8_t", "int16_t", "int32_t", "int64_t"}
UnsignedTypes == {"uint8_t", "uint16_t", "uint32_t", "uint64_t"}
FloatTypes == {"float", "double", "complex_float_t", "complex_double_t"}

sizeof(T) ==
  CASE T \in {"int8_t", "uint8_t"} -> 1
    [] T \in {"int16_t", "uint16_t"} -> 2
    [] T \in {"int32_t", "uint32_t", "float"} -> 4
    [] T \in {"int64_t", "uint64_t", "double", "complex_float_t"} -> 8
    [] T = "complex_double_t" -> 16

\* std::numeric_limits<T>::max() of an integral T
numeric_limits_max(T) ==
  CASE T = "int8_t" -> INT8_MAX
    [] T = "int16_t" -> INT16_MAX
    [] T = "int32_t" -> INT32_MAX
    [] T = "int64_t" -> INT64_MAX
    [] T = "uint8_t" -> UINT8_MAX
    [] T = "uint16_t" -> UINT16_MAX
    [] T = "uint32_t" -> UINT32_MAX
    [] T = "uint64_t" -> UINT64_MAX

float_num_type(T) ==
  CASE T = "float" -> 34
    [] T = "double" -> 35
    [] T = "complex_float_t" -> 51
    [] T = "complex_double_t" -> 52

\* the overloads of push_packed_array: T is signed integral or floating
packed_num_type(T) ==
  IF T \in SignedTypes THEN minimal_signed_bits(numeric_limits_max(T))
  ELSE float_num_type(T)

push_packed_array(buf, dimension_array, data, T) ==
  push_array(buf, dimension_array, data, array, packed_num_type(T))

\* mutant: the unsigned branch does not add 16
numeric_num_type_no_offset(T) ==
  IF T \in SignedTypes THEN minimal_signed_bits(numeric_limits_max(T))
  ELSE IF T \in UnsignedTypes THEN minimal_unsigned_bits(numeric_limits_max(T))
  ELSE float_num_type(T)

\* the overloads of push_numeric_array: T is integral or floating
numeric_num_type(T) ==
  IF T \in SignedTypes THEN minimal_signed_bits(numeric_limits_max(T))
  ELSE IF T \in UnsignedTypes THEN 16 + minimal_unsigned_bits(numeric_limits_max(T))
  ELSE float_num_type(T)

push_numeric_array(buf, dimension_array, data, T) ==
  push_array(buf, dimension_array, data, narray, numeric_num_type(T))

(***************************************************************************)
(* State                                                                   *)
(***************************************************************************)
VARIABLES
  ebuf,        \* Encoder::buffer
  pushed,      \* history: the push calls made so far, in order
  before,      \* history: Encoder::buffer before the latest push call
  buffer,      \* Parser::buffer, the caller's bytes
  size,        \* Parser::size
  pos,         \* Parser::pos
  err,         \* Parser::err
  tokens,      \* Parser::tokens
  rd,          \* history: the buffer indices parse() has read
  unknown_at,  \* history: tokens.size() when the first unknown tag was read, or -1
  cerr,        \* the diagnostics written to std::cerr
  pc,          \* where the caller of the codec is
  tree_tokens, \* ExprTree::tokens of the tree being built
  root,        \* ExprTree::root
  expr_stack,  \* MakeExprTree's expr_stack: each ExprNode* as the path from the root
  node_stack,  \* MakeExprTree's node_stack
  tree_pos,    \* MakeExprTree's local pos
  tok_rd,      \* history: the indices at which MakeExprTree has read the token list
  vresult      \* the value returned by the caller's own read_varint call

encVars   == <<ebuf, pushed, before>>
parseVars == <<buffer, size, pos, err, tokens, rd, unknown_at, vresult>>
treeVars  == <<tree_tokens, root, expr_stack, node_stack, tree_pos, tok_rd>>
vars      == <<encVars, parseVars, treeVars, cerr, pc>>

(***************************************************************************)
(* Parser::parse, the header check (lines 635-642).                        *)
(***************************************************************************)
\* mutant: only the first header byte is compared
header_ok_first_byte(b, sz) == ~(sz < 2 \/ b[1] # 56)

header_ok(b, sz) == ~(sz < 2 \/ b[1] # 56 \/ b[2] # 58)

\* the indices the short-circuit condition of line 636 reads
header_reads(b, sz) ==
  IF sz < 2 THEN {} ELSE IF b[1] # 56 THEN {0} ELSE {0, 1}

(***************************************************************************)
(* Parser::parse, one iteration of the while loop (lines 645-699) from     *)
(* cursor p.  brk: the break of line 648; throw: an allocation failed;     *)
(* unknown: the default case ran (err = 2); toks: the tokens emplaced.     *)
(***************************************************************************)
NoTok(p, rds) ==
  [brk |-> FALSE, throw |-> FALSE, unknown |-> FALSE, toks |-> <<>>,
   pos |-> p, reads |-> rds]

parse_number(b, sz, type, p, rds) ==
  LET length == size_of_head_num_type(type)
  IN  [NoTok((p + length) % Modulus, rds) EXCEPT
         !.toks = <<Token(type, length, p)>>]

\* mutant: the token views the bytes from the length field on
parse_string_at_length(b, sz, type, p, rds, junk) ==
  LET v == read_varint(b, sz, p, junk)
  IN  [NoTok((v.pos + v.result) % Modulus, rds \cup v.reads) EXCEPT
         !.toks = <<Token(type, v.result, p)>>]

parse_string(b, sz, type, p, rds, junk) ==
  LET v == read_varint(b, sz, p, junk)
  IN  [NoTok((v.pos + v.result) % Modulus, rds \cup v.reads) EXCEPT
         !.toks = <<Token(type, v.result, v.pos)>>]

parse_func(b, sz, type, p, rds, junk) ==
  LET v == read_varint(b, sz, p, junk)
  IN  [NoTok(v.pos, rds \cup v.reads) EXCEPT
         !.toks = <<Token(type, v.result, v.pos)>>]

parse_rule(b, sz, type, p, rds) ==
  [NoTok(p, rds) EXCEPT !.toks = <<Token(type, 2, p)>>]

parse_array(b, sz, type, p, rds, junk) ==
  LET nt == read_varint(b, sz, p, junk)
      r  == read_varint(b, sz, nt.pos, junk)
      rs == rds \cup nt.reads \cup r.reads
  IN  IF r.result > AllocLimit
      THEN [NoTok(r.pos, rs) EXCEPT !.throw = TRUE]
      ELSE LET d == read_dims(b, sz, r.pos, 0, r.result, <<>>, 1, junk)
               adv == (d.all_len * size_of_arr_num_type(nt.result)) % Modulus
           IN  [NoTok((d.pos + adv) % Modulus, rs \cup d.reads) EXCEPT
                  !.toks = <<ArrayToken(type, d.dims, nt.result, d.all_len, d.pos)>>]

parse_default(p, rds) == [NoTok(p, rds) EXCEPT !.unknown = TRUE]

parse_iter(b, sz, p0, junk) ==
  LET type == ByteAt(b, p0, junk)
      p    == (p0 + 1) % Modulus
      rds  == {p0}
  IN  IF p = sz THEN [NoTok(p, rds) EXCEPT !.brk = TRUE]
      ELSE IF type \in NumberHeads THEN parse_number(b, sz, type, p, rds)
      ELSE IF type \in StringHeads THEN parse_string(b, sz, type, p, rds, junk)
      ELSE IF type \in {func, association} THEN parse_func(b, sz, type, p, rds, junk)
      ELSE IF type \in {delay_rule, rule} THEN parse_rule(b, sz, type, p, rds)
      ELSE IF type \in {array, narray} THEN parse_array(b, sz, type, p, rds, junk)
      ELSE parse_default(p, rds)

(***************************************************************************)
(* Parser::parse as steps of the caller: the header check, one step per    *)
(* loop iteration, and the exit through line 701.                          *)
(***************************************************************************)
ParseHeader ==
  /\ pc = "parse"
  /\ IF pos = 0
     THEN /\ rd' = rd \cup header_reads(buffer, size)
          /\ IF header_ok(buffer, size)
             THEN pos' = 2 /\ pc' = "loop" /\ UNCHANGED <<err, cerr>>
             ELSE /\ err' = 1
                  /\ cerr' = cerr \cup {"Invalid WXF file"}
                  /\ pc' = "parsed"
                  /\ pos' = pos
     ELSE pc' = "loop" /\ UNCHANGED <<pos, err, cerr, rd>>
  /\ UNCHANGED <<encVars, buffer, size, tokens, unknown_at, vresult, treeVars>>

ParseIter ==
  /\ pc = "loop"
  /\ pos < size
  /\ Len(tokens) < MaxTokens
  /\ \E junk \in JunkBytes :
       LET it == parse_iter(buffer, size, pos, junk)
       IN  /\ pos' = it.pos
           /\ tokens' = tokens \o it.toks
           /\ err' = IF it.unknown THEN 2 ELSE err
           /\ cerr' = IF it.unknown THEN cerr \cup {"Unknown head type"} ELSE cerr
           /\ unknown_at' = IF it.unknown /\ unknown_at = -1
                            THEN Len(tokens) ELSE unknown_at
           /\ rd' = rd \cup it.reads
           /\ pc' = IF it.throw THEN "throw" ELSE IF it.brk THEN "exit" ELSE "loop"
  /\ UNCHANGED <<encVars, buffer, size, vresult, treeVars>>

\* the value parse() leaves in err on its way out of the loop (line 701)
err_at_exit(e) == 0

ParseExit ==
  /\ pc = "exit" \/ (pc = "loop" /\ ~(pos < size))
  /\ err' = err_at_exit(err)
  /\ pc' = "parsed"
  /\ UNCHANGED <<encVars, buffer, size, pos, tokens, rd, unknown_at, vresult, cerr, treeVars>>


(***************************************************************************)
(* struct ExprNode.  children is the ExprNode[] array: size default nodes  *)
(* after construction, <<>> for the null pointer.  An ExprNode* is the     *)
(* path of child slots leading to the node from the root.                  *)
(***************************************************************************)
DefaultNode == [index |-> 0, size |-> 0, children |-> <<>>, type |-> i8]

ExprNode(idx, sz, t) ==
  [index |-> idx, size |-> sz, children |-> [k \in 1..sz |-> DefaultNode], type |-> t]

\* ExprNode::clear
clear(node) == DefaultNode

RECURSIVE NodeAt(_, _)
NodeAt(n, path) ==
  IF path = <<>> THEN n ELSE NodeAt(n.children[Head(path) + 1], Tail(path))

RECURSIVE SetNodeAt(_, _, _)
SetNodeAt(n, path, new) ==
  IF path = <<>> THEN new
  ELSE [n EXCEPT !.children[Head(path) + 1] = SetNodeAt(@, Tail(path), new)]

Last(s) == s[Len(s)]
Front(s) == SubSeq(s, 1, Len(s) - 1)

(***************************************************************************)
(* Outcomes of undefined behaviour: the process dies, or it goes on in a   *)
(* state of which nothing is known.                                        *)
(***************************************************************************)
UBOutcomes == {"ub_crash", "ub_wild"}

(***************************************************************************)
(* MakeExprTree's lambda move_to_next_node (lines 831-841).                *)
(***************************************************************************)
RECURSIVE move_to_next_node(_, _, _)
move_to_next_node(es, ns, rt) ==
  IF ns = <<>> THEN [expr_stack |-> es, node_stack |-> ns]
  ELSE LET n   == Len(ns)
           ns1 == [ns EXCEPT ![n] = (@ + 1) % Modulus]
       IN  IF ns1[n] >= NodeAt(rt, es[n]).size
           THEN move_to_next_node(Front(es), Front(ns1), rt)
           ELSE [expr_stack |-> es, node_stack |-> ns1]

(***************************************************************************)
(* MakeExprTree(Parser&), lines 818-863: the err test, the move of the     *)
(* token list, and the root node.                                          *)
(***************************************************************************)
\* the root built from the first token: the node and the next token position
root_of(token) ==
  IF token.type = func
  THEN [node |-> ExprNode(1, token.length, token.type), pos |-> 2, open |-> TRUE]
  ELSE IF token.type = association
  THEN [node |-> ExprNode(1, token.length, token.type), pos |-> 1, open |-> TRUE]
  ELSE [node |-> ExprNode(0, 0, token.type), pos |-> 0, open |-> FALSE]

\* ExprNode's constructor throws std::bad_alloc when the array cannot be had
alloc_fails(sz) == sz > AllocLimit

TreeRoot ==
  /\ pc = "parsed"
  /\ IF err # 0
     THEN /\ pc' = "done"
          /\ UNCHANGED <<tokens, treeVars>>
     ELSE /\ tree_tokens' = tokens
          /\ tokens' = <<>>
          /\ tok_rd' = tok_rd \cup {0}
          /\ IF Len(tokens) = 0
             THEN \* tokens[0] of an empty vector
                  /\ pc' \in UBOutcomes
                  /\ UNCHANGED <<root, expr_stack, node_stack, tree_pos>>
             ELSE LET first == root_of(tokens[1])
                  IN  IF alloc_fails(first.node.size)
                      THEN /\ pc' = "throw"
                           /\ UNCHANGED <<root, expr_stack, node_stack, tree_pos>>
                      ELSE /\ root' = first.node
                           /\ tree_pos' = first.pos
                           /\ IF first.open
                              THEN /\ expr_stack' = << <<>> >>
                                   /\ node_stack' = <<0>>
                                   /\ pc' = "tree_loop"
                              ELSE /\ pc' = "done"
                                   /\ UNCHANGED <<expr_stack, node_stack>>
  /\ UNCHANGED <<encVars, buffer, size, pos, err, rd, unknown_at, vresult, cerr>>

(***************************************************************************)
(* MakeExprTree, one iteration of the for loop (lines 866-900).            *)
(***************************************************************************)
\* the node a token becomes, the tokens it takes, and whether it opens a frame
node_of(token, p) ==
  IF token.type = func
  THEN [node |-> ExprNode(p + 1, token.length, token.type), step |-> 2, open |-> TRUE]
  ELSE IF token.type = association
  THEN [node |-> ExprNode(p, token.length, token.type), step |-> 1, open |-> TRUE]
  ELSE IF token.type \in {delay_rule, rule}
  THEN [node |-> ExprNode(p, 2, token.type), step |-> 1, open |-> TRUE]
  ELSE [node |-> ExprNode(p, 0, token.type), step |-> 1, open |-> FALSE]

TreeStep ==
  /\ pc = "tree_loop"
  /\ tree_pos < Len(tree_tokens)
  /\ tok_rd' = tok_rd \cup {tree_pos}
  /\ IF node_stack = <<>>
     THEN \* node_stack.back() of an empty vector
          /\ pc' \in UBOutcomes
          /\ UNCHANGED <<root, expr_stack, node_stack, tree_pos>>
     ELSE LET token    == tree_tokens[tree_pos + 1]
              node_pos == Last(node_stack)
              parent   == Last(expr_stack)
              made     == node_of(token, tree_pos)
              slot     == Append(parent, node_pos)
          IN  IF node_pos >= Len(NodeAt(root, parent).children)
              THEN \* children[node_pos] through a null unique_ptr
                   /\ pc' \in UBOutcomes
                   /\ UNCHANGED <<root, expr_stack, node_stack, tree_pos>>
              ELSE IF alloc_fails(made.node.size)
              THEN /\ pc' = "throw"
                   /\ UNCHANGED <<root, expr_stack, node_stack, tree_pos>>
              ELSE /\ root' = SetNodeAt(root, slot, made.node)
                   /\ tree_pos' = tree_pos + made.step
                   /\ pc' = "tree_loop"
                   /\ IF made.open
                      THEN /\ expr_stack' = Append(expr_stack, slot)
                           /\ node_stack' = Append(node_stack, 0)
                      ELSE LET nx == move_to_next_node(expr_stack, node_stack, root')
                           IN  /\ expr_stack' = nx.expr_stack
                               /\ node_stack' = nx.node_stack
  /\ UNCHANGED <<encVars, parseVars, tree_tokens, cerr>>

(***************************************************************************)
(* MakeExprTree, after the loop (lines 902-909).  The cleanup calls clear() *)
(* on expr_stack[0], expr_stack[1], ... in this order.  clear() resets the  *)
(* children pointer, which destroys and frees every node below the cleared *)
(* one; a later entry of expr_stack that lies below an earlier one is then  *)
(* a dangling pointer.                                                     *)
(***************************************************************************)
IsProperPrefix(a, b) == Len(a) < Len(b) /\ SubSeq(b, 1, Len(a)) = a

\* the entries of es whose node was freed by the clear() of an earlier entry
Dangling(es) ==
  {i \in 1..Len(es) : \E j \in 1..(i - 1) : IsProperPrefix(es[j], es[i])}

TreeFinish ==
  /\ pc = "tree_loop"
  /\ ~(tree_pos < Len(tree_tokens))
  /\ IF node_stack = <<>>
     THEN pc' = "done" /\ UNCHANGED <<root, cerr>>
     ELSE /\ cerr' = cerr \cup {"Error: not all nodes are parsed"}
          /\ root' = clear(root)
          /\ IF Dangling(expr_stack) = {}
             THEN pc' = "done"
             ELSE \* clear() through a dangling ExprNode*
                  pc' \in UBOutcomes \cup {"done"}
  /\ UNCHANGED <<encVars, parseVars, tree_tokens, expr_stack, node_stack, tree_pos, tok_rd>>


(***************************************************************************)
(* The caller's side.  The values it pushes and the buffers it hands to    *)
(* the decoder are drawn from the sample sets below.                       *)
(***************************************************************************)
\* longest short string pushed
MaxStr == 2
\* length of the one long string pushed (its length takes two varint bytes)
LongStr == 130
\* most elements in a pushed array
MaxElems == 2
\* most dimensions of a pushed array
MaxRank == 2
\* most push calls in the structure-level specification
MaxPush == 4
\* most push calls in the specification of named functions
MaxScenario == 3
\* most push calls in the specification of the Encoder alone
MaxEnc == 2

SeqsUpTo(S, n) == UNION {[1..k -> S] : k \in 0..n}

SignExt(s) == s \o Rep(IF s[Len(s)] >= 128 THEN 255 ELSE 0, 8 - Len(s))

EdgeBytes == {0, 127, 128, 255}
HighWords == {<<0, 0, 0, 0>>, <<255, 255, 255, 255>>, <<1, 0, 0, 0>>,
              <<254, 255, 255, 255>>, <<255, 255, 255, 127>>, <<0, 0, 0, 128>>}

\* int64_t samples: every width's edges, as sign-extended 1, 2 and 4 byte
\* patterns and as 8 byte patterns
IntSamples ==
  {SignExt(s) : s \in [1..1 -> EdgeBytes] \cup [1..2 -> EdgeBytes] \cup [1..4 -> EdgeBytes]}
    \cup {lo \o hi : lo \in [1..4 -> EdgeBytes], hi \in HighWords}

One == <<1>> \o Rep(0, 7)

StrSamples == SeqsUpTo({0, 97, 200}, MaxStr) \cup {Rep(97, LongStr)}

DimSamples == SeqsUpTo({0, 1, 2, 16}, MaxRank)

DataSamples(T) == SeqsUpTo({Rep(7, sizeof(T)), Rep(200, sizeof(T))}, MaxElems)

PackedSamples == {"int8_t", "int16_t", "double"}
NumericSamples == {"uint8_t", "int16_t"}

\* Encoder(std::vector<uint8_t>&& buf): the buffers an Encoder starts from
StartBuffers == {<<>>, <<i8, 1>>, <<func, 1, symbol, 0>>}

\* a push call as recorded in the history
Call(op, n, head, val, dims, T) ==
  [op |-> op, n |-> n, head |-> head, val |-> val, dims |-> dims, T |-> T]

Pushed(call, newbuf) ==
  /\ pc = "encode"
  /\ ebuf' = newbuf
  /\ before' = ebuf
  /\ pushed' = Append(pushed, call)
  /\ UNCHANGED <<parseVars, treeVars, cerr, pc>>

PushInteger(vals, limit) ==
  /\ Len(pushed) < limit
  /\ \E v \in vals :
       Pushed(Call("integer", 0, 0, v, <<>>, ""), push_integer(ebuf, v))

PushString(strs, heads, limit) ==
  /\ Len(pushed) < limit
  /\ \E str \in strs, h \in heads :
       Pushed(Call("string", 0, h, str, <<>>, ""), push_string(ebuf, str, h))

PushFunction(limit) ==
  /\ Len(pushed) < limit
  /\ \E n \in 0..2 :
       Pushed(Call("function", n, func, <<>>, <<>>, ""), push_function(ebuf, <<>>, n))

\* push_function with a head symbol drawn from heads
PushFunctionNamed(heads, limit) ==
  /\ Len(pushed) < limit
  /\ \E n \in 0..2, h \in heads :
       Pushed(Call("function", n, func, h, <<>>, ""), push_function(ebuf, h, n))

PushAssociation(limit) ==
  /\ Len(pushed) < limit
  /\ \E n \in 0..1 :
       Pushed(Call("association", n, association, <<>>, <<>>, ""),
              push_association(ebuf, n))

PushRule(limit) ==
  /\ Len(pushed) < limit
  /\ Pushed(Call("rule", 2, rule, <<>>, <<>>, ""), push_rule(ebuf))

PushDelayRule(limit) ==
  /\ Len(pushed) < limit
  /\ Pushed(Call("delay_rule", 2, delay_rule, <<>>, <<>>, ""), push_delay_rule(ebuf))

PushPackedArray(limit) ==
  /\ Len(pushed) < limit
  /\ \E T \in PackedSamples :
       \E d \in DimSamples, data \in DataSamples(T) :
         Pushed(Call("packed_array", 0, array, data, d, T),
                push_packed_array(ebuf, d, data, T))

PushNumericArray(limit) ==
  /\ Len(pushed) < limit
  /\ \E T \in NumericSamples :
       \E d \in DimSamples, data \in DataSamples(T) :
         Pushed(Call("numeric_array", 0, narray, data, d, T),
                push_numeric_array(ebuf, d, data, T))

PushReal(limit) ==
  /\ Len(pushed) < limit
  /\ \E v \in {Rep(0, 8), <<0, 0, 0, 0, 0, 0, 240, 63>>} :
       Pushed(Call("real", 0, f64, v, <<>>, ""), push_real(ebuf, v))

PushUstr(limit) ==
  /\ Len(pushed) < limit
  /\ \E str \in SeqsUpTo({1}, 2) :
       Pushed(Call("ustr", 0, 0, str, <<>>, ""), push_ustr(ebuf, str))

\* the array pushes over every element type, with a few dimension vectors
\* and spans of 0 to MaxElems equal elements
TypedDims == {<<>>, <<0>>, <<1>>, <<2>>, <<1, 2>>, <<16, 16>>}
TypedData(T) == {Rep(Rep(7, sizeof(T)), n) : n \in 0..MaxElems}

PushPackedArrayOf(types, limit) ==
  /\ Len(pushed) < limit
  /\ \E T \in types :
       \E d \in TypedDims, data \in TypedData(T) :
         Pushed(Call("packed_array", 0, array, data, d, T),
                push_packed_array(ebuf, d, data, T))

PushNumericArrayOf(types, limit) ==
  /\ Len(pushed) < limit
  /\ \E T \in types :
       \E d \in TypedDims, data \in TypedData(T) :
         Pushed(Call("numeric_array", 0, narray, data, d, T),
                push_numeric_array(ebuf, d, data, T))

\* uint64_t samples: for every bit length n, 2^n - 1, 2^(n-1), and the
\* alternating pattern of n bits
OnesBelow(n) == [k \in 1..U64Bits |-> IF k <= n THEN 1 ELSE 0]
OneAt(n) == [k \in 1..U64Bits |-> IF k = n THEN 1 ELSE 0]
Alternating(n) == [k \in 1..U64Bits |-> IF k <= n /\ k % 2 = 1 THEN 1 ELSE 0]
U64Samples ==
  {OnesBelow(n) : n \in 0..U64Bits} \cup {OneAt(n) : n \in 1..U64Bits}
    \cup {Alternating(n) : n \in 1..U64Bits}

\* serialize_varint(buffer, v) on the vector the caller holds
PushVarint ==
  /\ Len(pushed) < 1
  /\ \E v \in U64Samples :
       Pushed(Call("varint", 0, 0, v, <<>>, ""), ebuf \o serialize_varint_u64(v))

\* a Parser on the vector, its cursor at the first byte of the varint, and one
\* call of read_varint
ReadVarint ==
  /\ pc = "encode"
  /\ Len(pushed) = 1 /\ pushed[1].op = "varint"
  /\ \E junk \in JunkBytes :
       LET v == read_varint_u64(ebuf, Len(ebuf), Len(before), junk)
       IN  /\ buffer' = ebuf
           /\ size' = Len(ebuf)
           /\ pos' = v.pos
           /\ vresult' = v.result
           /\ rd' = v.reads
  /\ pc' = "varint_read"
  /\ UNCHANGED <<encVars, err, tokens, unknown_at, treeVars, cerr>>

\* the number of sub-expressions still owed after the push calls ps, or -1
\* when a call was made with nothing owed
Arity(call) ==
  IF call.op \in {"function", "association", "rule", "delay_rule"} THEN call.n ELSE 0

RECURSIVE Owed(_, _, _)
Owed(ps, k, need) ==
  IF k > Len(ps) THEN need
  ELSE IF need = 0 THEN -1
  ELSE Owed(ps, k + 1, need - 1 + Arity(ps[k]))

Complete(ps) == Owed(ps, 1, 1) = 0

\* the caller writes the two header bytes (as fullform_to_wxf does) before the
\* Encoder's bytes and hands the first k bytes to MakeExprTree(str, len)
WithHeader(buf) == <<56, 58>> \o buf

Decode(k) ==
  /\ pc = "encode"
  /\ buffer' = SubSeq(WithHeader(ebuf), 1, k)
  /\ size' = k
  /\ pc' = "parse"
  /\ UNCHANGED <<encVars, pos, err, tokens, rd, unknown_at, vresult, treeVars, cerr>>

DecodeAll == Decode(Len(WithHeader(ebuf)))

DecodePrefix ==
  /\ Complete(pushed)
  /\ \E k \in 0..(Len(WithHeader(ebuf)) - 1) : Decode(k)

(***************************************************************************)
(* Specifications                                                          *)
(***************************************************************************)
InitDecoder ==
  /\ pos = 0
  /\ err = 0
  /\ tokens = <<>>
  /\ rd = {}
  /\ unknown_at = -1
  /\ cerr = {}
  /\ tree_tokens = <<>>
  /\ root = DefaultNode
  /\ expr_stack = <<>>
  /\ node_stack = <<>>
  /\ tree_pos = 0
  /\ tok_rd = {}
  /\ vresult = <<>>

Decoder == ParseHeader \/ ParseIter \/ ParseExit \/ TreeRoot \/ TreeStep \/ TreeFinish

\* the byte-level buffers: a header sample followed by any short tag stream,
\* and streams whose first varint runs over nine to eleven bytes
HeaderSamples == {<<>>, <<56>>, <<56, 58>>, <<56, 56>>}
BodyBytes == {0, 1, 58, 65, 76, 83, 193, 253}
LongVarints ==
  {<<56, 58, t>> \o Rep(129, k) \o tail :
     t \in {string, func, array}, k \in (VarintLines - 1)..(VarintLines + 1),
     tail \in {<<>>, <<1>>, <<1, i8, 1>>}}
ByteBuffers ==
  {h \o b : h \in HeaderSamples, b \in SeqsUpTo(BodyBytes, MaxBody)} \cup LongVarints

\* Spec: MakeExprTree(str, len) on arbitrary bytes
Init ==
  /\ ebuf = <<>> /\ pushed = <<>> /\ before = <<>>
  /\ buffer \in ByteBuffers
  /\ size = Len(buffer)
  /\ pc = "parse"
  /\ InitDecoder

Next == Decoder

Spec == Init /\ [][Next]_vars

InitEncoder(starts) ==
  /\ ebuf \in starts /\ pushed = <<>> /\ before = <<>>
  /\ buffer = <<>>
  /\ size = 0
  /\ pc = "encode"
  /\ InitDecoder

\* SpecValues: one push of a sampled value onto an Encoder that may already
\* hold bytes, then the decode of header + buffer
InitValues == InitEncoder(StartBuffers)

NextValues ==
  \/ PushInteger(IntSamples, 1)
  \/ PushString(StrSamples, StringHeads, 1)
  \/ PushPackedArray(1)
  \/ PushNumericArray(1)
  \/ PushDelayRule(1)
  \/ DecodeAll
  \/ Decoder

SpecValues == InitValues /\ [][NextValues]_vars

\* SpecTree: up to MaxPush structural pushes, then the decode of header + buffer
\* or, for a complete expression, of any proper prefix of it
InitTree == InitEncoder({<<>>})

NextTree ==
  \/ PushInteger({One}, MaxPush)
  \/ PushString({<<97>>}, {string}, MaxPush)
  \/ PushFunction(MaxPush)
  \/ PushAssociation(MaxPush)
  \/ PushRule(MaxPush)
  \/ DecodeAll
  \/ DecodePrefix
  \/ Decoder

SpecTree == InitTree /\ [][NextTree]_vars

\* SpecScenario: up to MaxScenario pushes of functions with a head symbol,
\* small integers and short strings, then the decode of header + buffer
Two == <<2>> \o Rep(0, 7)

InitScenario == InitEncoder({<<>>})

NextScenario ==
  \/ PushFunctionNamed({<<>>, <<102>>}, MaxScenario)
  \/ PushInteger({One, Two}, MaxScenario)
  \/ PushString({<<>>, <<97>>}, {string, symbol}, MaxScenario)
  \/ DecodeAll
  \/ Decoder

SpecScenario == InitScenario /\ [][NextScenario]_vars

\* SpecEncoder: up to MaxEnc pushes of every kind onto an Encoder that may
\* already hold bytes; an array, of any element type, is the first push
InitEnc == InitEncoder(StartBuffers)

NextEnc ==
  \/ PushInteger({One, INT16_MAX, INT32_MAX, INT64_MAX}, MaxEnc)
  \/ PushReal(MaxEnc)
  \/ PushString({<<>>, <<97>>}, StringHeads, MaxEnc)
  \/ PushFunctionNamed({<<>>, <<102>>}, MaxEnc)
  \/ PushAssociation(MaxEnc)
  \/ PushRule(MaxEnc)
  \/ PushDelayRule(MaxEnc)
  \/ PushUstr(MaxEnc)
  \/ PushPackedArrayOf(SignedTypes \cup FloatTypes, 1)
  \/ PushNumericArrayOf(SignedTypes \cup UnsignedTypes \cup FloatTypes, 1)

SpecEncoder == InitEnc /\ [][NextEnc]_vars

\* SpecVarint: serialize_varint of a sampled uint64_t behind whatever the
\* vector holds, then read_varint from where it was written
InitVarint == InitEncoder(StartBuffers)

NextVarint == PushVarint \/ ReadVarint

SpecVarint == InitVarint /\ [][NextVarint]_vars


(***************************************************************************)
(* Properties                                                              *)
(***************************************************************************)
Returned == pc = "done"
Stopped == pc \in {"done", "throw"} \cup UBOutcomes

BadHeader == size < 2 \/ buffer[1] # 56 \/ buffer[2] # 58

\* C1: a buffer shorter than 2 bytes or not starting 0x38 0x3A never enters
\* the token loop: parse() reads at most the two header bytes, returns with
\* err # 0 and no token, and MakeExprTree returns the default (empty) tree,
\* whatever bytes follow.
C1_BadHeaderRejected ==
  BadHeader =>
    /\ pc \in {"parse", "parsed", "done"}
    /\ rd \subseteq {0, 1}
    /\ tokens = <<>>
    /\ pc \in {"parsed", "done"} => err # 0
    /\ pc = "done" => root = DefaultNode /\ tree_tokens = <<>>

\* a rejected buffer whose bytes after the bad header are a well-formed token
C1_Witness ==
  /\ BadHeader
  /\ pc = "done"
  /\ size >= 4
  /\ buffer[3] \in AllHeads
  /\ root = DefaultNode

\* C2: once parse() has read a tag byte outside the 16 defined tags, it
\* returns with err # 0 and with no token emitted after that byte.
C2_UnknownTagAborts ==
  (pc = "parsed" /\ unknown_at # -1) => (err # 0 /\ Len(tokens) = unknown_at)

\* the bytes a token views: [data, data + Extent)
Extent(t) ==
  IF t.type \in NumberHeads \cup StringHeads THEN t.length
  ELSE IF t.type \in {array, narray}
  THEN t.dimensions[2] * size_of_arr_num_type(t.dimensions[1])
  ELSE 0

InBuffer(t) == t.data + Extent(t) <= size

\* C3: when parse() returns err = 0, every emitted token's byte range lies
\* inside the buffer (a width, length or count * width that exceeds the
\* remaining bytes is reported as an error).
C3_TokensInsideBuffer ==
  (pc = "parsed" /\ err = 0) => \A k \in 1..Len(tokens) : InBuffer(tokens[k])

\* what C4 asks of one read_varint call from cursor p
VarintCallOK(p, junk) ==
  LET v == read_varint(buffer, size, p, junk)
      n == v.pos - p
  IN  /\ v.pos <= size
      /\ n <= VarintLines
      /\ v.reads = p..(v.pos - 1)
      /\ \A q \in p..(v.pos - 2) : buffer[q + 1] >= 128
      /\ p < size => (n >= 1 /\ (buffer[v.pos] < 128 \/ v.pos = size \/ n = VarintLines))
      /\ p >= size => n = 0

\* C4: every index parse() reads (header, tag bytes, varint bytes) is below
\* size; and from every cursor position up to size, read_varint reads exactly
\* the bytes from the cursor on, at most 10 of them, stopping at the first byte
\* with the high bit clear or at the end of the buffer, and leaves pos <= size.
C4_ReadsInsideBuffer ==
  /\ \A q \in rd : q < size
  /\ pc = "loop" => \A p \in 0..size : \A junk \in JunkBytes : VarintCallOK(p, junk)

\* a parse in which a varint stopped after 10 bytes, all with the high bit
\* set, with buffer left behind it
C4_Witness ==
  /\ pc = "parsed"
  /\ \E p \in rd :
       /\ p + VarintLines < size
       /\ \A q \in p..(p + VarintLines - 1) : q \in rd /\ buffer[q + 1] >= 128
       /\ buffer[p + VarintLines + 1] >= 128
       /\ (p + VarintLines) \notin rd


\* ---- decoding a prefix of an encoding (SpecTree) ----

FullDecode == pc # "encode" /\ size = Len(WithHeader(ebuf))
PrefixDecode == pc # "encode" /\ size < Len(WithHeader(ebuf))
Mismatch == "Error: not all nodes are parsed" \in cerr

\* C5: the decode of a proper prefix of header + one complete expression never
\* returns as a success: when MakeExprTree returns, either parse() reported an
\* error or the tree builder reported unmatched frames.
C5_PrefixIsError ==
  (Complete(pushed) /\ PrefixDecode /\ Returned) => (err # 0 \/ Mismatch)

\* ---- one pushed value and its decode (SpecValues) ----

RECURSIVE Product(_)
Product(d) == IF d = <<>> THEN 1 ELSE Head(d) * Product(Tail(d))

IntegerHeads == {i8, i16, i32, i64}

\* the num_type byte of each element type, as the format lists them
ElementTag(T) ==
  CASE T = "int8_t" -> 0 [] T = "int16_t" -> 1 [] T = "int32_t" -> 2 [] T = "int64_t" -> 3
    [] T = "uint8_t" -> 16 [] T = "uint16_t" -> 17 [] T = "uint32_t" -> 18
    [] T = "uint64_t" -> 19 [] T = "float" -> 34 [] T = "double" -> 35
    [] T = "complex_float_t" -> 51 [] T = "complex_double_t" -> 52

IsArrayCall(c) == c.op \in {"packed_array", "numeric_array"}

DecodesTo(c, t, junk) ==
  CASE c.op = "integer" ->
         t.type \in IntegerHeads /\ get_integer(t, buffer, junk) = c.val
    [] c.op = "string" ->
         t.type = c.head /\ get_string_view(t, buffer, junk) = c.val
    [] IsArrayCall(c) ->
         /\ t.type = c.head
         /\ t.rank = Len(c.dims)
         /\ t.dimensions[1] = ElementTag(c.T)
         /\ t.dimensions[2] = Len(c.val)
         /\ \A i \in 0..(t.rank - 1) : dim(t, i) = c.dims[i + 1]
         /\ get_arr_span(t, buffer, sizeof(c.T), junk) = Flatten(c.val)
    [] OTHER -> FALSE

RoundTripCase(c) ==
  \/ c.op \in {"integer", "string"}
  \/ IsArrayCall(c) /\ Product(c.dims) = Len(c.val)

\* C6: an int64, a byte string pushed under any of the five textual tags, or an
\* array whose dimension product equals its element count, pushed onto an empty
\* Encoder and parsed behind the header, yields exactly one token, of the same
\* tag family, from which the pushed value is read back.
C6_RoundTrip ==
  (pc = "parsed" /\ Len(pushed) = 1 /\ before = <<>> /\ RoundTripCase(pushed[1])) =>
    /\ Len(tokens) = 1
    /\ \A junk \in JunkBytes : DecodesTo(pushed[1], tokens[1], junk)

\* the round trip of a two-dimensional array of two elements
C6_Witness ==
  /\ pc = "parsed" /\ Len(pushed) = 1 /\ before = <<>>
  /\ RoundTripCase(pushed[1])
  /\ IsArrayCall(pushed[1]) /\ Len(pushed[1].dims) = 2 /\ Len(pushed[1].val) = 2
  /\ Len(tokens) = 1

\* the narrowest of 1, 2, 4, 8 bytes whose sign extension gives v back
Fits(v, n) == SignExt(SubSeq(v, 1, n)) = v
NarrowestWidth(v) == IF Fits(v, 1) THEN 1 ELSE IF Fits(v, 2) THEN 2 ELSE IF Fits(v, 4) THEN 4 ELSE 8
IntegerTag(n) == CASE n = 1 -> i8 [] n = 2 -> i16 [] n = 4 -> i32 [] n = 8 -> i64

\* C7: push_integer(v) appends, to whatever the buffer holds, the tag of the
\* narrowest of int8/16/32/64 containing v and then exactly that many
\* little-endian bytes of v.
C7_NarrowestInteger ==
  (Len(pushed) = 1 /\ pushed[1].op = "integer") =>
    LET v == pushed[1].val
        n == NarrowestWidth(v)
    IN  ebuf = before \o <<IntegerTag(n)>> \o SubSeq(v, 1, n)

\* 2147483648 pushed onto a non-empty buffer goes out as int64
C7_Witness ==
  /\ Len(pushed) = 1 /\ pushed[1].op = "integer"
  /\ pushed[1].val = <<0, 0, 0, 128, 0, 0, 0, 0>>
  /\ before # <<>>
  /\ ebuf = before \o <<i64, 0, 0, 0, 128, 0, 0, 0, 0>>

\* C8: push_array appends (the buffer grows, keeping its old content in front)
\* iff the product of the dimensions equals the element count; otherwise the
\* buffer is what it was before the call.
C8_ArrayPushIffProduct ==
  (Len(pushed) = 1 /\ IsArrayCall(pushed[1])) =>
    IF Product(pushed[1].dims) = Len(pushed[1].val)
    THEN /\ Len(ebuf) > Len(before)
         /\ SubSeq(ebuf, 1, Len(before)) = before
    ELSE ebuf = before


\* ---- the tree of a pushed expression (SpecTree) ----

\* the tag a push call's first token carries
TagOf(c) == IF c.op = "integer" THEN IntegerTag(NarrowestWidth(c.val)) ELSE c.head

\* the expression that starts at call k: its shape (type, child count and
\* children's shapes) and the call after it
RECURSIVE Expr(_, _)
RECURSIVE Kids(_, _, _)
Expr(ps, k) ==
  LET kids == Kids(ps, k + 1, Arity(ps[k]))
  IN  [shape |-> [type |-> TagOf(ps[k]), size |-> Arity(ps[k]), children |-> kids.shapes],
       next  |-> kids.next]
Kids(ps, k, n) ==
  IF n = 0 THEN [shapes |-> <<>>, next |-> k]
  ELSE LET e    == Expr(ps, k)
           rest == Kids(ps, e.next, n - 1)
       IN  [shapes |-> <<e.shape>> \o rest.shapes, next |-> rest.next]

RECURSIVE Shape(_)
Shape(n) ==
  [type |-> n.type, size |-> n.size,
   children |-> [k \in 1..Len(n.children) |-> Shape(n.children[k])]]

FunctionExpr == Complete(pushed) /\ pushed[1].op = "function"

\* C9: for a function call declaring n >= 0 children followed by exactly n
\* complete sub-expressions, MakeExprTree returns a root of n children whose
\* sub-trees are the sub-expressions, and its frame stack is non-empty while
\* tokens remain and empty once the last token is consumed.
C9_ArityClosure ==
  (FunctionExpr /\ FullDecode) =>
    /\ pc \notin {"throw"} \cup UBOutcomes
    /\ (pc = "tree_loop" /\ tree_pos < Len(tree_tokens)) => node_stack # <<>>
    /\ Returned => /\ node_stack = <<>>
                   /\ root.size = pushed[1].n
                   /\ Shape(root) = Expr(pushed, 1).shape

\* the roots MakeExprTree returns for the one-token buffers header + scalar,
\* string or array
LeafRoots == {ExprNode(0, 0, t) : t \in NumberHeads \cup StringHeads \cup {array, narray}}

\* C10: when the tokens run out with a frame still open, MakeExprTree returns
\* (it neither crashes nor corrupts memory) a result that no successful decode
\* returns.
C10_MismatchDistinguishable ==
  Mismatch => (Returned /\ root \notin LeafRoots)


\* ---- the scenario f(1, "a") (SpecScenario) ----

ScenarioCalls ==
  << Call("function", 2, func, <<102>>, <<>>, ""),
     Call("integer", 0, 0, One, <<>>, ""),
     Call("string", 0, string, <<97>>, <<>>, "") >>

ScenarioBytes == << <<102, 2, 115, 1, 102>>, <<67, 1>>, <<83, 1, 97>> >>

IsLeaf(n) == n.size = 0 /\ n.children = <<>>

\* the token a node of the returned tree refers to
TokenOf(n) == tree_tokens[n.index + 1]

\* C11: push_function("f", 2), push_integer(1), push_string("a") append exactly
\* 102 2 115 1 'f', then 67 1, then 83 1 'a'; the decode of header + those bytes
\* returns without error a function root of exactly 2 children, child 0 a leaf
\* whose token reads as the integer 1, child 1 a leaf whose token reads as the
\* text "a".
C11_Scenario ==
  \A k \in 1..3 :
    pushed = SubSeq(ScenarioCalls, 1, k) =>
      /\ ebuf = before \o ScenarioBytes[k]
      /\ ebuf = Flatten(SubSeq(ScenarioBytes, 1, k))
      /\ (k = 3 /\ pc # "encode") =>
            /\ pc \notin {"throw"} \cup UBOutcomes
            /\ Returned =>
                 /\ err = 0 /\ cerr = {}
                 /\ root.type = func /\ root.size = 2 /\ Len(root.children) = 2
                 /\ IsLeaf(root.children[1]) /\ IsLeaf(root.children[2])
                 /\ TokenOf(root.children[1]).type = i8
                 /\ TokenOf(root.children[2]).type = string
                 /\ \A junk \in JunkBytes :
                      /\ get_integer(TokenOf(root.children[1]), buffer, junk) = One
                      /\ get_string_view(TokenOf(root.children[2]), buffer, junk) = <<97>>

\* the tree of f(1, "a") has been returned
C11_Witness ==
  /\ pushed = ScenarioCalls
  /\ Returned
  /\ buffer = <<56, 58, 102, 2, 115, 1, 102, 67, 1, 83, 1, 97>>
  /\ root.type = func /\ root.size = 2


\* ---- the varint of a uint64_t (SpecVarint) ----

VarintPushed == Len(pushed) = 1 /\ pushed[1].op = "varint"

\* bits 7(k-1) .. 7(k-1)+6 of v as a number, k = 1, 2, ...
Group(v, k) == Low7([j \in 1..7 |-> IF 7 * (k - 1) + j <= U64Bits THEN v[7 * (k - 1) + j] ELSE 0])

\* C12: serialize_varint(v) appends between 1 and 10 bytes; byte k holds the
\* k-th 7-bit group of v, least significant group first; the high bit is set on
\* every byte but the last; no set bit of v lies beyond the groups written; and
\* read_varint on those bytes returns v and advances the cursor by their number.
C12_VarintRoundTrip ==
  VarintPushed =>
    LET v == pushed[1].val
        n == Len(ebuf) - Len(before)
    IN  /\ SubSeq(ebuf, 1, Len(before)) = before
        /\ 1 <= n /\ n <= 10
        /\ \A k \in 1..n :
             /\ ebuf[Len(before) + k] % 128 = Group(v, k)
             /\ ebuf[Len(before) + k] >= 128 <=> k < n
        /\ \A j \in 1..U64Bits : j > 7 * n => v[j] = 0
        /\ pc = "varint_read" =>
             /\ vresult = v
             /\ pos = Len(before) + n
             /\ rd = Len(before)..(Len(ebuf) - 1)

\* 2^64 - 1 written in 10 bytes behind earlier content and read back
C12_Witness ==
  /\ VarintPushed
  /\ pushed[1].val = OnesBelow(U64Bits)
  /\ before # <<>>
  /\ Len(ebuf) = Len(before) + 10
  /\ pc = "varint_read"
  /\ vresult = OnesBelow(U64Bits)


\* ---- tokens beyond one complete expression (SpecTree) ----

\* a push call was made when no sub-expression was owed any more
Extra(ps) == Owed(ps, 1, 1) = -1

Reported == err # 0 \/ cerr # {}

\* C13: when the token list holds tokens beyond one complete expression,
\* MakeExprTree never reads the top of its empty frame stack, and when it
\* returns it has reported an error.
C13_ExtraTokensRejected ==
  (Extra(pushed) /\ FullDecode) =>
    /\ pc \notin UBOutcomes
    /\ Returned => Reported


\* ---- termination of parse() (Spec) ----

\* one iteration of the while loop of parse() has run
LoopIteration == pc = "loop" /\ pc' \in {"loop", "exit", "throw"}

\* C14: with the cursor a fixed-width unsigned integer, every iteration of the
\* loop of parse() leaves the cursor strictly greater than it found it, and
\* parse() never holds more tokens than the buffer has bytes.
C14_CursorIncreases ==
  /\ [][LoopIteration => pos' > pos]_vars
  /\ [](Len(tokens) <= size)


\* ---- the Encoder alone (SpecEncoder) ----

\* C15: after every push operation the buffer is at least as long as before
\* it and starts with the bytes it held before it.
C15_AppendOnly ==
  Len(pushed) >= 1 =>
    /\ Len(ebuf) >= Len(before)
    /\ SubSeq(ebuf, 1, Len(before)) = before

\* an array push that was refused on a non-empty buffer, then a push that
\* appended
C15_Witness ==
  /\ Len(pushed) = 2
  /\ IsArrayCall(pushed[1]) /\ Product(pushed[1].dims) # Len(pushed[1].val)
  /\ pushed[2].op = "ustr"
  /\ before # <<>>
  /\ Len(ebuf) > Len(before)

\* the array push appended its header and data
ArrayAppended == Len(pushed) = 1 /\ IsArrayCall(pushed[1]) /\ Len(ebuf) > Len(before)

\* the num_type byte of the array header just appended
EmittedTag == ebuf[Len(before) + 2]

\* C16: the element tag an array push emits is the one the format lists for
\* the element type; the width 1 << (tag & 0b111) is the element's byte size;
\* and push_packed_array emits no tag in 16..19.
C16_ElementTag ==
  ArrayAppended =>
    /\ EmittedTag = ElementTag(pushed[1].T)
    /\ size_of_arr_num_type(EmittedTag) = sizeof(pushed[1].T)
    /\ \A k \in 1..Len(pushed[1].val) : 2 ^ BitAnd(EmittedTag, 7) = Len(pushed[1].val[k])
    /\ pushed[1].op = "packed_array" => EmittedTag \notin 16..19

\* a numeric array of two uint64_t went out
C16_Witness ==
  /\ ArrayAppended
  /\ pushed[1].op = "numeric_array" /\ pushed[1].T = "uint64_t"
  /\ Len(pushed[1].val) = 2
  /\ EmittedTag = 19


\* ---- composites of arity 0 (SpecTree) ----

ZeroArity(ps) ==
  \E k \in 1..Len(ps) : ps[k].op \in {"function", "association"} /\ ps[k].n = 0

\* C17: in the decode of a complete expression holding a function or
\* association of arity 0, no frame of a node with 0 children is left open
\* between tokens, no token is stored below such a node (the store would go
\* through its null children pointer), and the tree returned has the shape of
\* the expression, the zero-arity node in one slot as a childless node.
C17_ZeroArityClosed ==
  (Complete(pushed) /\ ZeroArity(pushed) /\ FullDecode) =>
    /\ \A i \in 1..Len(expr_stack) :
         pc = "tree_loop" => NodeAt(root, expr_stack[i]).size > 0
    /\ pc \notin UBOutcomes
    /\ Returned => (node_stack = <<>> /\ Shape(root) = Expr(pushed, 1).shape)


\* ---- the cleanup of a partial tree (SpecTree) ----

\* the loop has ended with frames still open: the cleanup is about to run
CleanupPending ==
  pc = "tree_loop" /\ ~(tree_pos < Len(tree_tokens)) /\ node_stack # <<>>

\* C18: when the tokens are exhausted with k >= 1 frames open, no open node
\* the cleanup clears lies in storage released by clearing an earlier one, and
\* the cleanup does not end in undefined behaviour.
C18_CleanupNoUseAfterFree ==
  /\ CleanupPending => Dangling(expr_stack) = {}
  /\ Mismatch => pc \notin UBOutcomes


\* ---- array tokens (SpecValues, Spec) ----

\* the dimension sizes an array token stores
DimsOf(t) == SubSeq(t.dimensions, 3, Len(t.dimensions))

ArrayTokenExact(t) ==
  /\ t.dimensions[2] = Product(DimsOf(t))
  /\ t.dimensions[2] * size_of_arr_num_type(t.dimensions[1]) < Modulus

\* C19: every array token parse() emits stores as its flattened element count
\* the mathematical product of the dimension sizes it stores, and count times
\* element width fits the cursor's width.
C19_ArrayCountIsProduct ==
  \A k \in 1..Len(tokens) :
    tokens[k].type \in {array, narray} => ArrayTokenExact(tokens[k])


\* ---- indices into the token list (Spec) ----

RECURSIVE Indices(_)
Indices(n) == {n.index} \cup UNION {Indices(n.children[k]) : k \in 1..Len(n.children)}

\* C20: for every token list parse() hands over with err = 0, every index at
\* which MakeExprTree reads the list is below tokens.size(), and so is every
\* node.index of the tree it returns.
C20_TokenIndexInRange ==
  /\ \A i \in tok_rd : i < Len(tree_tokens)
  /\ (Returned /\ err = 0) => \A i \in Indices(root) : i < Len(tree_tokens)


\* ---- the token a node refers to (SpecTree) ----

RECURSIVE Nodes(_)
Nodes(n) == {n} \cup UNION {Nodes(n.children[k]) : k \in 1..Len(n.children)}

\* node n refers to its own token of the list toks
OwnToken(n, toks) ==
  /\ n.index < Len(toks)
  /\ IF n.type = func
     THEN /\ n.index >= 1
          /\ toks[n.index + 1].type = symbol
          /\ toks[n.index].type = func
          /\ toks[n.index].length = n.size
     ELSE /\ toks[n.index + 1].type = n.type
          /\ n.size = IF n.type \in {association, delay_rule, rule}
                      THEN toks[n.index + 1].length ELSE 0

\* a complete expression without composites of arity 0, decoded whole
WellFormedDecode == Complete(pushed) /\ ~ZeroArity(pushed) /\ FullDecode /\ Returned

\* C21: in the tree returned for a well-formed token list, every leaf, rule,
\* delayed-rule and association node, root or nested, has as index the
\* position of its own token (same type, size the token's arity), and every
\* function node has as index the head symbol right after its function token.
C21_NodeIndexIsOwnToken ==
  WellFormedDecode => \A n \in Nodes(root) : OwnToken(n, tree_tokens)

====
